---- MODULE Spec2Model ----
(***************************************************************************)
(* Model of DOGAPI.py: DogAPI, YandexDiskUploader, ImageFilenameHelper,    *)
(* ResultSaver and DogImageUploader.run.                                   *)
(*                                                                         *)
(* A Python str is a sequence of one-character strings, so that slicing,   *)
(* find/rfind, concatenation and the "in" operator are computed the way    *)
(* the code computes them.  A call that may raise returns a record         *)
(* [raised, value].                                                        *)
(***************************************************************************)
EXTENDS Integers, Sequences, FiniteSets, TLC

VARIABLES
    pc,         \* position of DogImageUploader.run
    exit,       \* how run ended: which message it printed, or "raised"
    breed,      \* input().strip().lower()
    yd_token,   \* input().strip()
    breeds,     \* value returned by get_all_breeds
    sub_breeds, \* breeds[breed]
    pbar,       \* the tqdm bar: [total, n]
    results,    \* self.results
    idx,        \* position of the for loop over sub_breeds
    reqs,       \* the kinds of HTTP request issued so far
    ensure,     \* the create_folder call of run (line 148), once made
    slot,       \* what the last processed image slot did
    catalog,    \* the response the catalog request got
    saved,      \* the ResultSaver.save call, once made
    fpc,        \* position of the filename-extraction harness
    url,        \* its input URL
    fname,      \* get_filename_from_url(url)
    fname2      \* get_filename_from_url applied to fname

vars == <<pc, exit, breed, yd_token, breeds, sub_breeds, pbar, results, idx,
          reqs, ensure, slot, catalog, saved, fpc, url, fname, fname2>>

runVars == <<pc, exit, breed, yd_token, breeds, sub_breeds, pbar, results, idx,
             reqs, ensure, slot, catalog, saved>>

fnVars == <<fpc, url, fname, fname2>>

\* ------------------------------------------------------------------------
\* Bounds
\* ------------------------------------------------------------------------

\* longest URL given to the filename-extraction harness
MaxLen == 4

\* longest sub-breed list of a catalog entry
MaxSubs == 2

\* ------------------------------------------------------------------------
\* Python values
\* ------------------------------------------------------------------------

\* Python's None (no str is a sequence holding a four-character element)
None == <<"None">>

Returned(v) == [raised |-> FALSE, value |-> v]

Raised == [raised |-> TRUE, value |-> None]

Range(s) == {s[i] : i \in 1..Len(s)}

\* s.find(c, start) with 1-based positions: the first position >= start
\* holding c, 0 when there is none
Find(s, c, start) ==
    LET I == {i \in start..Len(s) : s[i] = c}
    IN  IF I = {} THEN 0 ELSE CHOOSE i \in I : \A j \in I : i <= j

\* s.rfind(c) with 1-based positions, 0 when there is none
RFind(s, c) ==
    LET I == {i \in 1..Len(s) : s[i] = c}
    IN  IF I = {} THEN 0 ELSE CHOOSE i \in I : \A j \in I : i >= j

\* sub in s, for two str
IsSubstring(sub, s) ==
    \E i \in 0..(Len(s) - Len(sub)) : SubSeq(s, i + 1, i + Len(sub)) = sub

\* s.strip(): leading and trailing blanks removed
RECURSIVE Strip(_)
Strip(s) ==
    IF s = <<>> THEN s
    ELSE IF Head(s) = " " THEN Strip(Tail(s))
    ELSE IF s[Len(s)] = " " THEN Strip(SubSeq(s, 1, Len(s) - 1))
    ELSE s

UpperOf == [c \in {"a", "h", "k", "p"} |->
               CASE c = "a" -> "A" [] c = "h" -> "H" [] c = "k" -> "K" [] c = "p" -> "P"]

\* s.lower()
Lower(s) ==
    [i \in 1..Len(s) |->
        IF \E c \in DOMAIN UpperOf : UpperOf[c] = s[i]
        THEN CHOOSE c \in DOMAIN UpperOf : UpperOf[c] = s[i]
        ELSE s[i]]

\* ------------------------------------------------------------------------
\* urllib.parse.urlparse and os.path, as ImageFilenameHelper and
\* upload_from_url use them
\* ------------------------------------------------------------------------

Letters == {"a", "b", "h", "j", "k", "p", "x", "A", "H", "K", "P"}

Digits == {"0", "1"}

\* urllib.parse.scheme_chars
scheme_chars == Letters \cup Digits \cup {"+", "-", "."}

\* urllib.parse.uses_params
uses_params == {
    <<>>, <<"f","t","p">>, <<"h","d","l">>, <<"h","t","t","p">>,
    <<"i","m","a","p">>, <<"h","t","t","p","s">>, <<"s","h","t","t","p">>,
    <<"r","t","s","p">>, <<"r","t","s","p","u">>, <<"s","i","p">>,
    <<"s","i","p","s">>, <<"m","m","s">>, <<"s","f","t","p">>, <<"t","e","l">>,
    <<"p","r","o","s","p","e","r","o">> }

\* the part of s before the first c, all of s when c is not in it
Before(s, c) == SubSeq(s, 1, IF c \in Range(s) THEN Find(s, c, 1) - 1 ELSE Len(s))

\* urlsplit, the scheme: the text before the first ":" when that is a
\* letter followed by scheme characters
HasScheme(u) ==
    /\ Find(u, ":", 1) > 1
    /\ u[1] \in Letters
    /\ \A k \in 1..(Find(u, ":", 1) - 1) : u[k] \in scheme_chars

SchemeOf(u) == IF HasScheme(u) THEN SubSeq(u, 1, Find(u, ":", 1) - 1) ELSE <<>>

AfterScheme(u) == IF HasScheme(u) THEN SubSeq(u, Find(u, ":", 1) + 1, Len(u)) ELSE u

\* urlsplit, the netloc (_splitnetloc): after a leading "//", up to the
\* first of "/", "?", "#"
HasNetloc(v) == Len(v) >= 2 /\ v[1] = "/" /\ v[2] = "/"

NetlocEnd(v) ==
    LET delims == {Find(v, c, 3) : c \in {"/", "?", "#"}} \ {0}
    IN  IF delims = {} THEN Len(v) + 1
        ELSE CHOOSE d \in delims : \A e \in delims : d <= e

NetlocOf(v) == IF HasNetloc(v) THEN SubSeq(v, 3, NetlocEnd(v) - 1) ELSE <<>>

AfterNetloc(v) == IF HasNetloc(v) THEN SubSeq(v, NetlocEnd(v), Len(v)) ELSE v

\* urlsplit raises ValueError("Invalid IPv6 URL") for such a netloc
BadNetloc(n) ==
    \/ ("[" \in Range(n) /\ "]" \notin Range(n))
    \/ ("]" \in Range(n) /\ "[" \notin Range(n))

\* urlsplit: scheme, netloc, then fragment and query cut off the rest
urlsplit(u) ==
    IF BadNetloc(NetlocOf(AfterScheme(u))) THEN Raised
    ELSE Returned([scheme |-> SchemeOf(u),
                   netloc |-> NetlocOf(AfterScheme(u)),
                   path |-> Before(Before(AfterNetloc(AfterScheme(u)), "#"), "?")])

\* _splitparams(url)[0]: the path without the parameters of its last segment
splitparams(p) ==
    LET i == IF "/" \in Range(p) THEN Find(p, ";", RFind(p, "/"))
             ELSE Find(p, ";", 1)
    IN  IF i = 0 THEN p ELSE SubSeq(p, 1, i - 1)

\* urlparse(url).path
urlparse_path(u) ==
    LET s == urlsplit(u)
    IN  IF s.raised THEN Raised
        ELSE IF s.value.scheme \in uses_params /\ ";" \in Range(s.value.path)
             THEN Returned(splitparams(s.value.path))
             ELSE Returned(s.value.path)

\* posixpath.basename
basename(p) == SubSeq(p, RFind(p, "/") + 1, Len(p))

RECURSIVE rstrip_slash(_)
rstrip_slash(s) ==
    IF s # <<>> /\ s[Len(s)] = "/" THEN rstrip_slash(SubSeq(s, 1, Len(s) - 1)) ELSE s

\* posixpath.dirname
dirname(p) ==
    LET head == SubSeq(p, 1, RFind(p, "/"))
    IN  IF head # <<>> /\ Range(head) # {"/"} THEN rstrip_slash(head) ELSE head

image_jpg == <<"i", "m", "a", "g", "e", ".", "j", "p", "g">>

\* mutant: the fallback is applied only to an empty segment
get_filename_from_url_NoDotCheck(u) ==
    LET p == urlparse_path(u)
    IN  IF p.raised THEN Raised
        ELSE LET filename == basename(p.value)
             IN  Returned(IF filename = <<>> THEN image_jpg ELSE filename)

\* ImageFilenameHelper.get_filename_from_url
get_filename_from_url(u) ==
    LET p == urlparse_path(u)
    IN  IF p.raised THEN Raised
        ELSE LET filename == basename(p.value)
             IN  Returned(IF filename = <<>> \/ "." \notin Range(filename)
                          THEN image_jpg ELSE filename)

\* ------------------------------------------------------------------------
\* HTTP responses, as the code reads them
\* ------------------------------------------------------------------------

\* requests.put / requests.post of YandexDiskUploader: a status code, or a
\* transport error (timeout, connection failure) raised by the call
StatusCodes == {201, 202, 409, 500}

StorageResponses ==
    {[raised |-> FALSE, status_code |-> c] : c \in StatusCodes}
        \cup {[raised |-> TRUE, status_code |-> 0]}

\* requests.get of dog.ceo: transport error, or a status code and a JSON
\* body {status, message}
GetResponse(code, status, message) ==
    [raised |-> FALSE, status_code |-> code,
     body |-> [status |-> status, message |-> message]]

GetTransportError ==
    [raised |-> TRUE, status_code |-> 0,
     body |-> [status |-> "none", message |-> None]]

\* response.raise_for_status() raises HTTPError
IsHTTPError(resp) == resp.status_code >= 400 /\ resp.status_code < 600

\* a Python dict is a function; a str is a sequence
PyDict(f) == [type |-> "dict", val |-> f]

PyStr(s) == [type |-> "str", val |-> s]

EmptyDict == PyDict(<<>>)

\* bool(x)
Truthy(x) == IF x.type = "dict" THEN DOMAIN x.val # {} ELSE x.val # <<>>

\* key in x: key membership for a dict, substring for a str
Contains(x, key) ==
    IF x.type = "dict" THEN key \in DOMAIN x.val ELSE IsSubstring(key, x.val)

\* ------------------------------------------------------------------------
\* DogAPI
\* ------------------------------------------------------------------------

\* _get_image_url: the message of a successful body; every failure raises
get_image_url(resp) ==
    IF resp.raised \/ IsHTTPError(resp) THEN Raised
    ELSE IF resp.body.status = "success" THEN Returned(resp.body.message)
    ELSE Raised

\* DogAPI.get_all_breeds: {} on RequestException, else the body's message,
\* whatever the body's status
get_all_breeds(resp) ==
    IF resp.raised \/ IsHTTPError(resp) THEN Returned(EmptyDict)
    ELSE Returned(resp.body.message)

\* ------------------------------------------------------------------------
\* YandexDiskUploader
\* ------------------------------------------------------------------------

\* mutant: only "created" counts
create_folder_Only201(path, resp) ==
    IF resp.raised THEN Returned(FALSE)
    ELSE Returned(resp.status_code = 201)

\* YandexDiskUploader.create_folder
create_folder(path, resp) ==
    IF resp.raised THEN Returned(FALSE)
    ELSE Returned(resp.status_code \in {201, 409})

UploadRequest(path, u, resp) ==
    [op |-> "upload", path |-> path, url |-> u, resp |-> resp]

FolderRequest(path, resp) ==
    [op |-> "create_folder", path |-> path, url |-> None, resp |-> resp]

\* an upload_from_url call: its arguments, result, the requests it issued in
\* order, and the create_folder calls it made
UploadCall(u, path, ret, log, folder) ==
    [image_url |-> u, yandex_path |-> path, ret |-> ret, log |-> log,
     folder |-> folder]

FolderCall(path, resp, ret) == [path |-> path, resp |-> resp, ret |-> ret]

\* mutant: the retry is made whatever create_folder returned
upload_from_url_RetryAlways(image_url, yandex_path, r1, rf, r2) ==
    LET up1 == UploadRequest(yandex_path, image_url, r1)
        up2 == UploadRequest(yandex_path, image_url, r2)
        folder_path == dirname(yandex_path)
        cf == create_folder(folder_path, rf)
        mk == FolderRequest(folder_path, rf)
        fc == <<FolderCall(folder_path, rf, cf)>>
    IN  IF r1.raised THEN
            UploadCall(image_url, yandex_path, Returned(FALSE), <<up1>>, <<>>)
        ELSE IF r1.status_code = 202 THEN
            UploadCall(image_url, yandex_path, Returned(TRUE), <<up1>>, <<>>)
        ELSE IF r1.status_code = 409 THEN
            IF r2.raised THEN
                UploadCall(image_url, yandex_path, Returned(FALSE), <<up1, mk, up2>>, fc)
            ELSE
                UploadCall(image_url, yandex_path, Returned(r2.status_code = 202),
                           <<up1, mk, up2>>, fc)
        ELSE
            UploadCall(image_url, yandex_path, Returned(FALSE), <<up1>>, <<>>)

\* mutant: the retried upload counts as a success whatever its status
upload_from_url_IgnoreRetryStatus(image_url, yandex_path, r1, rf, r2) ==
    LET up1 == UploadRequest(yandex_path, image_url, r1)
        up2 == UploadRequest(yandex_path, image_url, r2)
        folder_path == dirname(yandex_path)
        cf == create_folder(folder_path, rf)
        mk == FolderRequest(folder_path, rf)
        fc == <<FolderCall(folder_path, rf, cf)>>
    IN  IF r1.raised THEN
            UploadCall(image_url, yandex_path, Returned(FALSE), <<up1>>, <<>>)
        ELSE IF r1.status_code = 202 THEN
            UploadCall(image_url, yandex_path, Returned(TRUE), <<up1>>, <<>>)
        ELSE IF r1.status_code = 409 THEN
            IF cf.raised THEN
                UploadCall(image_url, yandex_path, Returned(FALSE), <<up1, mk>>, fc)
            ELSE IF cf.value THEN
                UploadCall(image_url, yandex_path, Returned(~r2.raised),
                           <<up1, mk, up2>>, fc)
            ELSE
                UploadCall(image_url, yandex_path, Returned(FALSE), <<up1, mk>>, fc)
        ELSE
            UploadCall(image_url, yandex_path, Returned(FALSE), <<up1>>, <<>>)

\* YandexDiskUploader.upload_from_url; r1, rf, r2 are the responses the
\* first upload, the folder-create and the retried upload get if issued
upload_from_url(image_url, yandex_path, r1, rf, r2) ==
    LET up1 == UploadRequest(yandex_path, image_url, r1)
        up2 == UploadRequest(yandex_path, image_url, r2)
        folder_path == dirname(yandex_path)
        cf == create_folder(folder_path, rf)
        mk == FolderRequest(folder_path, rf)
        fc == <<FolderCall(folder_path, rf, cf)>>
    IN  IF r1.raised THEN
            UploadCall(image_url, yandex_path, Returned(FALSE), <<up1>>, <<>>)
        ELSE IF r1.status_code = 202 THEN
            UploadCall(image_url, yandex_path, Returned(TRUE), <<up1>>, <<>>)
        ELSE IF r1.status_code = 409 THEN
            IF cf.raised THEN
                UploadCall(image_url, yandex_path, Returned(FALSE), <<up1, mk>>, fc)
            ELSE IF cf.value THEN
                IF r2.raised THEN
                    UploadCall(image_url, yandex_path, Returned(FALSE),
                               <<up1, mk, up2>>, fc)
                ELSE
                    UploadCall(image_url, yandex_path, Returned(r2.status_code = 202),
                               <<up1, mk, up2>>, fc)
            ELSE
                UploadCall(image_url, yandex_path, Returned(FALSE), <<up1, mk>>, fc)
        ELSE
            UploadCall(image_url, yandex_path, Returned(FALSE), <<up1>>, <<>>)

\* ------------------------------------------------------------------------
\* DogImageUploader: one image slot
\* ------------------------------------------------------------------------

Record(b, sb, u, path, status) ==
    [breed |-> b, sub_breed |-> sb, image_url |-> u, yandex_disk_path |-> path,
     status |-> status]

\* what a slot did: the result of the image-URL fetch, the upload_from_url
\* call if one was made, the record it appended, whether it raised
SlotResult(fetch, filename, upload, record) ==
    [fetch |-> fetch, filename |-> filename, upload |-> upload,
     record |-> record, raised |-> FALSE]

\* the except clause: the record with no image URL and the fallback path
Fallback(b, sb, prefix, folder_path) ==
    Record(b, sb, None, folder_path \o prefix \o image_jpg, "failed")

\* the try block from the upload on, call being the upload_from_url call
AfterUpload(b, sb, prefix, folder_path, fetch, filename, call) ==
    IF call.ret.raised
    THEN SlotResult(fetch, filename, <<call>>, <<Fallback(b, sb, prefix, folder_path)>>)
    ELSE SlotResult(fetch, filename, <<call>>,
            <<Record(b, sb, call.image_url, call.yandex_path,
                     IF call.ret.value THEN "uploaded" ELSE "failed")>>)

\* the try block from the filename on; get_filename_from_url may raise
AfterFilename(b, sb, prefix, folder_path, fetch, filename, r1, rf, r2) ==
    IF filename.raised
    THEN SlotResult(fetch, filename, <<>>, <<Fallback(b, sb, prefix, folder_path)>>)
    ELSE AfterUpload(b, sb, prefix, folder_path, fetch, filename,
            upload_from_url(fetch.value, folder_path \o prefix \o filename.value,
                            r1, rf, r2))

\* the try/except shared by the two _process_* methods: prefix is
\* "{breed}_" or "{breed}_{sub_breed}_", fetch the result of the image fetch
ProcessSlot(b, sb, prefix, folder_path, fetch, r1, rf, r2) ==
    IF fetch.raised
    THEN SlotResult(fetch, Raised, <<>>, <<Fallback(b, sb, prefix, folder_path)>>)
    ELSE AfterFilename(b, sb, prefix, folder_path, fetch,
                       get_filename_from_url(fetch.value), r1, rf, r2)

\* mutant: the record says "uploaded" whatever upload_from_url returned
process_breed_image_NoStatusCheck(b, folder_path, fetch, r1, rf, r2) ==
    LET r == ProcessSlot(b, None, b \o <<"_">>, folder_path, fetch, r1, rf, r2)
    IN  IF r.upload = <<>> THEN r
        ELSE [r EXCEPT !.record = <<[r.record[1] EXCEPT !.status = "uploaded"]>>]

\* DogImageUploader._process_breed_image
process_breed_image(b, folder_path, fetch, r1, rf, r2) ==
    ProcessSlot(b, None, b \o <<"_">>, folder_path, fetch, r1, rf, r2)

\* mutant: "except Exception: pass", a failed fetch appends no record
process_sub_breed_image_DropOnFailure(b, sb, folder_path, fetch, r1, rf, r2) ==
    LET r == ProcessSlot(b, sb, b \o <<"_">> \o sb \o <<"_">>, folder_path, fetch,
                         r1, rf, r2)
    IN  IF fetch.raised THEN [r EXCEPT !.record = <<>>] ELSE r

\* mutant: the sub-breed is left out of the destination path
process_sub_breed_image_NoSubInPath(b, sb, folder_path, fetch, r1, rf, r2) ==
    ProcessSlot(b, sb, b \o <<"_">>, folder_path, fetch, r1, rf, r2)

\* DogImageUploader._process_sub_breed_image
process_sub_breed_image(b, sb, folder_path, fetch, r1, rf, r2) ==
    ProcessSlot(b, sb, b \o <<"_">> \o sb \o <<"_">>, folder_path, fetch, r1, rf, r2)

\* mutant: the main image is not counted
total_files_NoMain(subs) == Len(subs)

\* total_files of run (line 141)
total_files(subs) == IF subs # <<>> THEN 1 + Len(subs) ELSE 1

\* ResultSaver.save: the list it is given, and whether the file was written
\* (an I/O error is printed and swallowed)
save(res, io_ok) == [results |-> res, written |-> io_ok]

\* ------------------------------------------------------------------------
\* The environment: what the user types and what the two services answer
\* ------------------------------------------------------------------------

RawBreeds == {<<"H", " ">>, <<"k">>, <<"p">>, <<>>}

RawTokens == {<<>>, <<" ">>, <<"t", " ">>}

SubNames == {<<"a">>, <<"a", "_", "a">>}

SubLists == UNION {[1..n -> SubNames] : n \in 0..MaxSubs}

\* the catalogs dog.ceo may answer with: none, or "h" with some sub-breeds
\* and "k" without
Catalogs ==
    {<<>>} \cup {(<<"h">> :> l) @@ (<<"k">> :> <<>>) : l \in SubLists}

ErrorMessages == {<<>>, <<"n", "o", " ", "h">>}

CatalogResponses ==
    {GetTransportError, GetResponse(404, "error", PyStr(<<"n", "o">>))}
        \cup {GetResponse(200, "error", PyStr(m)) : m \in ErrorMessages}
        \cup {GetResponse(200, "success", PyDict(c)) : c \in Catalogs}

ImageUrls == {
    <<"/", "/", "h", "/", "x", ".", "j">>,
    <<"/", "/", "h", "/", "a", "_", "x", ".", "j">>,
    <<"/", "/", "[", "/", "x", ".", "j">> }

FetchResponses ==
    {GetTransportError, GetResponse(404, "error", <<"n", "o">>),
     GetResponse(200, "error", <<"n", "o">>)}
        \cup {GetResponse(200, "success", u) : u \in ImageUrls}

\* ------------------------------------------------------------------------
\* DogImageUploader.run
\* ------------------------------------------------------------------------

NoRequests == {}

NoBar == [total |-> 0, n |-> 0]

yandex_folder == <<"/">> \o breed \o <<"/">>

Uploads(log) == Cardinality({i \in 1..Len(log) : log[i].op = "upload"})

Folders(log) == Cardinality({i \in 1..Len(log) : log[i].op = "create_folder"})

\* the requests a slot issued, added to those issued before: the image
\* fetch, and the requests of its upload_from_url call
Count(r) ==
    LET log == IF r.upload = <<>> THEN <<>> ELSE r.upload[1].log
    IN  reqs \cup {"fetch"} \cup {log[i].op : i \in 1..Len(log)}

Init ==
    /\ pc = "AwaitInput"
    /\ exit = "none"
    /\ breed = <<>>
    /\ yd_token = <<>>
    /\ breeds = EmptyDict
    /\ sub_breeds = <<>>
    /\ pbar = NoBar
    /\ results = <<>>
    /\ idx = 0
    /\ reqs = NoRequests
    /\ ensure = <<>>
    /\ slot = <<>>
    /\ catalog = <<>>
    /\ saved = <<>>
    /\ fpc = "off"
    /\ url = <<>>
    /\ fname = <<>>
    /\ fname2 = <<>>

\* lines 122-127: the two prompts and the credential check
AwaitInput ==
    /\ pc = "AwaitInput"
    /\ \E rb \in RawBreeds, rt \in RawTokens :
        /\ breed' = Lower(Strip(rb))
        /\ yd_token' = Strip(rt)
        /\ IF Strip(rt) = <<>>
           THEN pc' = "Done" /\ exit' = "empty_token"
           ELSE pc' = "ResolveBreed" /\ exit' = exit
    /\ UNCHANGED <<breeds, sub_breeds, pbar, results, idx, reqs, ensure, slot,
                   catalog, saved>>
    /\ UNCHANGED fnVars

\* lines 130-142: the catalog request, the catalog and breed checks, and
\* sub_breeds = breeds[breed], which raises TypeError when breeds is a str
ResolveBreed ==
    /\ pc = "ResolveBreed"
    /\ \E resp \in CatalogResponses :
        LET got == get_all_breeds(resp)
        IN  /\ catalog' = <<resp>>
            /\ reqs' = reqs \cup {"catalog"}
            /\ IF got.raised
               THEN /\ pc' = "Done" /\ exit' = "raised"
                    /\ UNCHANGED <<breeds, sub_breeds>>
               ELSE /\ breeds' = got.value
                    /\ IF ~Truthy(got.value)
                       THEN /\ pc' = "Done" /\ exit' = "no_catalog"
                            /\ UNCHANGED sub_breeds
                       ELSE IF ~Contains(got.value, breed)
                       THEN /\ pc' = "Done" /\ exit' = "breed_not_found"
                            /\ UNCHANGED sub_breeds
                       ELSE IF got.value.type # "dict"
                       THEN /\ pc' = "Done" /\ exit' = "raised"
                            /\ UNCHANGED sub_breeds
                       ELSE /\ pc' = "EnsureFolder" /\ exit' = exit
                            /\ sub_breeds' = got.value.val[breed]
    /\ UNCHANGED <<breed, yd_token, pbar, results, idx, ensure, slot, saved>>
    /\ UNCHANGED fnVars

\* mutant: no return after the failure message
EnsureFolder_NoReturn ==
    /\ pc = "EnsureFolder"
    /\ \E resp \in StorageResponses :
        LET cf == create_folder(yandex_folder, resp)
        IN  /\ ensure' = <<FolderCall(yandex_folder, resp, cf)>>
            /\ reqs' = reqs \cup {"create_folder"}
            /\ pc' = "ProcessMain" /\ exit' = exit
            /\ pbar' = [total |-> total_files(sub_breeds), n |-> 0]
            /\ results' = <<>>
    /\ UNCHANGED <<breed, yd_token, breeds, sub_breeds, idx, slot, catalog, saved>>
    /\ UNCHANGED fnVars

\* lines 145-154: the destination folder, then the bar and results.clear()
EnsureFolder ==
    /\ pc = "EnsureFolder"
    /\ \E resp \in StorageResponses :
        LET cf == create_folder(yandex_folder, resp)
        IN  /\ ensure' = <<FolderCall(yandex_folder, resp, cf)>>
            /\ reqs' = reqs \cup {"create_folder"}
            /\ IF cf.raised
               THEN /\ pc' = "Done" /\ exit' = "raised"
                    /\ UNCHANGED <<pbar, results>>
               ELSE IF ~cf.value
               THEN /\ pc' = "Done" /\ exit' = "folder_failed"
                    /\ UNCHANGED <<pbar, results>>
               ELSE /\ pc' = "ProcessMain" /\ exit' = exit
                    /\ pbar' = [total |-> total_files(sub_breeds), n |-> 0]
                    /\ results' = <<>>
    /\ UNCHANGED <<breed, yd_token, breeds, sub_breeds, idx, slot, catalog, saved>>
    /\ UNCHANGED fnVars

\* The storage service answers the requests of a slot one by one: a
\* response is drawn only for a request the slot issues (the placeholder
\* stands for the answers never asked for).
NotAsked == [raised |-> TRUE, status_code |-> 0]

Issued(r) == IF r.upload = <<>> THEN 0 ELSE Len(r.upload[1].log)

\* the slot of the breed itself (sb is None) or of sub-breed sb, given the
\* response to its image request and to its storage requests
Slot(sb, fr, r1, rf, r2) ==
    IF sb = None
    THEN process_breed_image(breed, yandex_folder, get_image_url(fr), r1, rf, r2)
    ELSE process_sub_breed_image(breed, sb, yandex_folder, get_image_url(fr),
                                 r1, rf, r2)

\* every way the slot can go, over the answers to the requests it issues:
\* r is the slot with the answers drawn so far
Outcomes2(sb, fr, r1, rf, r) ==
    IF Issued(r) <= 2 THEN {r}
    ELSE {Slot(sb, fr, r1, rf, r2) : r2 \in StorageResponses}

Outcomes1(sb, fr, r1, r) ==
    IF Issued(r) <= 1 THEN {r}
    ELSE UNION {Outcomes2(sb, fr, r1, rf, Slot(sb, fr, r1, rf, NotAsked))
                    : rf \in StorageResponses}

Outcomes0(sb, fr, r) ==
    IF Issued(r) = 0 THEN {r}
    ELSE UNION {Outcomes1(sb, fr, r1, Slot(sb, fr, r1, NotAsked, NotAsked))
                    : r1 \in StorageResponses}

Outcomes(sb) ==
    UNION {Outcomes0(sb, fr, Slot(sb, fr, NotAsked, NotAsked, NotAsked))
                : fr \in FetchResponses}

\* line 157: _process_breed_image, its finally clause included
ProcessMain ==
    /\ pc = "ProcessMain"
    /\ \E r \in Outcomes(None) :
            /\ slot' = <<r>>
            /\ results' = results \o r.record
            /\ pbar' = [pbar EXCEPT !.n = @ + 1]
            /\ reqs' = Count(r)
            /\ IF r.raised
               THEN pc' = "Done" /\ exit' = "raised" /\ idx' = idx
               ELSE IF sub_breeds # <<>>
               THEN pc' = "ProcessSubBreeds" /\ exit' = exit /\ idx' = 1
               ELSE pc' = "Persist" /\ exit' = exit /\ idx' = idx
    /\ UNCHANGED <<breed, yd_token, breeds, sub_breeds, ensure, catalog, saved>>
    /\ UNCHANGED fnVars

\* lines 160-162: one iteration of the loop, _process_sub_breed_image with
\* its finally clause
ProcessSubBreed ==
    /\ pc = "ProcessSubBreeds"
    /\ idx <= Len(sub_breeds)
    /\ \E r \in Outcomes(sub_breeds[idx]) :
            /\ slot' = <<r>>
            /\ results' = results \o r.record
            /\ pbar' = [pbar EXCEPT !.n = @ + 1]
            /\ reqs' = Count(r)
            /\ IF r.raised
               THEN pc' = "Done" /\ exit' = "raised" /\ idx' = idx
               ELSE IF idx < Len(sub_breeds)
               THEN pc' = pc /\ exit' = exit /\ idx' = idx + 1
               ELSE pc' = "Persist" /\ exit' = exit /\ idx' = idx + 1
    /\ UNCHANGED <<breed, yd_token, breeds, sub_breeds, ensure, catalog, saved>>
    /\ UNCHANGED fnVars

\* lines 165-166: the bar is closed, the results are saved
Persist ==
    /\ pc = "Persist"
    /\ \E io_ok \in BOOLEAN : saved' = <<save(results, io_ok)>>
    /\ pc' = "Done"
    /\ exit' = "done"
    /\ UNCHANGED <<breed, yd_token, breeds, sub_breeds, pbar, results, idx, reqs,
                   ensure, slot, catalog>>
    /\ UNCHANGED fnVars

Next ==
    \/ AwaitInput
    \/ ResolveBreed
    \/ EnsureFolder
    \/ ProcessMain
    \/ ProcessSubBreed
    \/ Persist

Spec == Init /\ [][Next]_vars

\* ------------------------------------------------------------------------
\* ImageFilenameHelper.get_filename_from_url on every short URL
\* ------------------------------------------------------------------------

UrlChars == {"a", ".", "/", ":", ";", "?", "#", "["}

Urls == UNION {[1..n -> UrlChars] : n \in 0..MaxLen}

InitFilename ==
    /\ pc = "Off"
    /\ exit = "none"
    /\ breed = <<>>
    /\ yd_token = <<>>
    /\ breeds = EmptyDict
    /\ sub_breeds = <<>>
    /\ pbar = NoBar
    /\ results = <<>>
    /\ idx = 0
    /\ reqs = NoRequests
    /\ ensure = <<>>
    /\ slot = <<>>
    /\ catalog = <<>>
    /\ saved = <<>>
    /\ fpc = "input"
    /\ url \in Urls
    /\ fname = <<>>
    /\ fname2 = <<>>

\* the helper applied to the URL
Extract ==
    /\ fpc = "input"
    /\ fname' = <<get_filename_from_url(url)>>
    /\ fpc' = "once"
    /\ UNCHANGED <<url, fname2>>
    /\ UNCHANGED runVars

\* the helper applied to its own result
ExtractAgain ==
    /\ fpc = "once"
    /\ ~fname[1].raised
    /\ fname2' = <<get_filename_from_url(fname[1].value)>>
    /\ fpc' = "twice"
    /\ UNCHANGED <<url, fname>>
    /\ UNCHANGED runVars

NextFilename ==
    \/ Extract
    \/ ExtractAgain

SpecFilename == InitFilename /\ [][NextFilename]_vars

\* ------------------------------------------------------------------------
\* Properties
\* ------------------------------------------------------------------------

\* the bar exists and the per-image processing was reached
Processing == pc \in {"ProcessMain", "ProcessSubBreeds", "Persist"} \/ exit = "done"

\* the upload_from_url call of the last slot, when it made one
HasUpload == slot # <<>> /\ slot[1].upload # <<>>

LastUpload == slot[1].upload[1]

IsStatus(resp, code) == ~resp.raised /\ resp.status_code = code

\* the fallback path of a record: fixed filename under the breed's folder
FallbackPath(rec) ==
    <<"/">> \o rec.breed \o <<"/">> \o rec.breed \o <<"_">>
        \o (IF rec.sub_breed = None THEN <<>> ELSE rec.sub_breed \o <<"_">>)
        \o image_jpg

\* the filename a record's path is built from
FilenameOfUrl == [u \in ImageUrls |-> get_filename_from_url(u)]

FileOf(rec) ==
    IF rec.image_url = None THEN image_jpg ELSE FilenameOfUrl[rec.image_url].value

\* what a record's path holds after "/{breed}/{breed}_"
NameOf(rec) ==
    (IF rec.sub_breed = None THEN <<>> ELSE rec.sub_breed \o <<"_">>) \o FileOf(rec)

SomeStatus(st) == \E i \in 1..Len(results) : results[i].status = st

\* C1: once the destination folder is created the run reaches
\* ResultSaver.save and never raises, and the list handed to save holds
\* exactly N+1 records for the N sub-breeds: first the one of the breed itself
\* (sub_breed absent), then one per sub-breed in catalog order, whatever the
\* fetches and uploads of the slots did.
C1_RecordCount ==
    /\ (pc = "Done" /\ ensure # <<>> /\ ensure[1].ret = Returned(TRUE))
            => (exit = "done" /\ saved # <<>>)
    /\ saved # <<>> =>
        /\ Len(saved[1].results) = Len(sub_breeds) + 1
        /\ saved[1].results[1].sub_breed = None
        /\ \A i \in 1..Len(sub_breeds) :
                saved[1].results[i + 1].sub_breed = sub_breeds[i]

C1_Witness ==
    /\ saved # <<>>
    /\ Len(sub_breeds) = 2
    /\ Len(saved[1].results) = 3
    /\ saved[1].results[1].status = "failed"
    /\ saved[1].results[2].status = "uploaded"
    /\ saved[1].results[3].image_url = None

\* C2: upload_from_url never raises and returns true exactly when the first
\* upload response is 202, or the first is 409, create_folder on the parent
\* folder of the destination returned true and the retried upload got 202.
C2_UploadResult ==
    HasUpload =>
        LET call == LastUpload
            log == call.log
            first202 == IsStatus(log[1].resp, 202)
            retried202 ==
                /\ IsStatus(log[1].resp, 409)
                /\ Len(log) = 3
                /\ call.folder # <<>>
                /\ call.folder[1].path = dirname(call.yandex_path)
                /\ call.folder[1].ret = Returned(TRUE)
                /\ log[3].op = "upload"
                /\ IsStatus(log[3].resp, 202)
        IN  /\ ~call.ret.raised
            /\ call.ret.value <=> (first202 \/ retried202)

C2_Witness ==
    /\ HasUpload
    /\ LastUpload.ret = Returned(TRUE)
    /\ Len(LastUpload.log) = 3
    /\ IsStatus(LastUpload.log[1].resp, 409)
    /\ IsStatus(LastUpload.log[2].resp, 201)

\* C3: a run that ends at the credential check, the catalog check, the breed
\* lookup or the folder creation is over at once, has issued no image-fetch
\* and no upload request, and never calls ResultSaver.save.
EndsEarly ==
    \/ (pc # "AwaitInput" /\ yd_token = <<>>)
    \/ (catalog # <<>> /\ ~Truthy(breeds))
    \/ (catalog # <<>> /\ Truthy(breeds) /\ ~Contains(breeds, breed))
    \/ (ensure # <<>> /\ ensure[1].ret # Returned(TRUE))

C3_EarlyExit ==
    EndsEarly =>
        /\ pc = "Done"
        /\ exit \in {"empty_token", "no_catalog", "breed_not_found", "folder_failed"}
        /\ "fetch" \notin reqs
        /\ "upload" \notin reqs
        /\ saved = <<>>

C3_Witness ==
    /\ ensure # <<>>
    /\ IsStatus(ensure[1].resp, 500)
    /\ exit = "folder_failed"
    /\ sub_breeds # <<>>

\* C4 as stated: a slot that fails, whether its fetch raised or
\* upload_from_url returned false, appends a "failed" record with the
\* fallback path, and the run goes on.
SlotFailed ==
    \/ slot[1].fetch.raised
    \/ slot[1].filename.raised
    \/ (slot[1].upload # <<>> /\ slot[1].upload[1].ret # Returned(TRUE))

C4_Original ==
    (slot # <<>> /\ SlotFailed) =>
        /\ Len(slot[1].record) = 1
        /\ slot[1].record[1].status = "failed"
        /\ slot[1].record[1].yandex_disk_path = FallbackPath(slot[1].record[1])
        /\ exit # "raised"

\* C4 amended: a slot that fails appends one "failed" record and the run
\* goes on to the next slot; the record holds the fallback path and no image
\* URL when the fetch (or the filename extraction) raised, and holds the path
\* the upload was attempted at, built from the extracted filename, when
\* upload_from_url returned false.
C4_Amended ==
    (slot # <<>> /\ SlotFailed) =>
        /\ Len(slot[1].record) = 1
        /\ slot[1].record[1].status = "failed"
        /\ exit # "raised"
        /\ pc \in {"ProcessSubBreeds", "Persist", "Done"}
        /\ pbar.n = Len(results)
        /\ (slot[1].fetch.raised \/ slot[1].filename.raised) =>
                /\ slot[1].upload = <<>>
                /\ slot[1].record[1].image_url = None
                /\ slot[1].record[1].yandex_disk_path = FallbackPath(slot[1].record[1])
        /\ slot[1].upload # <<>> =>
                /\ slot[1].record[1].image_url = slot[1].fetch.value
                /\ slot[1].record[1].yandex_disk_path = slot[1].upload[1].yandex_path
                /\ slot[1].record[1].yandex_disk_path =
                        <<"/">> \o breed \o <<"/">> \o breed \o <<"_">>
                            \o NameOf(slot[1].record[1])

C4_Witness ==
    /\ HasUpload
    /\ LastUpload.ret = Returned(FALSE)
    /\ slot[1].record[1].status = "failed"
    /\ slot[1].record[1].yandex_disk_path # FallbackPath(slot[1].record[1])
    /\ pc = "ProcessSubBreeds"

\* C5: a catalog request that ends in a transport error, a non-2xx status
\* or a body whose status is not success yields an empty catalog, and the run
\* ends at the catalog check without raising and without any folder-create,
\* image-fetch or upload request.
CatalogFailed ==
    /\ catalog # <<>>
    /\ \/ catalog[1].raised
       \/ IsHTTPError(catalog[1])
       \/ catalog[1].body.status # "success"

C5_CatalogFailure ==
    CatalogFailed =>
        /\ ~Truthy(breeds)
        /\ pc = "Done"
        /\ exit = "no_catalog"
        /\ reqs = {"catalog"}

\* C6: create_folder never raises, and returns true exactly when the
\* response has status 201 or 409 (false on every other status and on a
\* transport error).
FolderCalls ==
    {ensure[i] : i \in 1..Len(ensure)}
        \cup (IF HasUpload THEN {LastUpload.folder[i] : i \in 1..Len(LastUpload.folder)}
              ELSE {})

C6_CreateFolder ==
    \A c \in FolderCalls :
        /\ ~c.ret.raised
        /\ c.ret.value <=> (IsStatus(c.resp, 201) \/ IsStatus(c.resp, 409))

C6_Witness ==
    /\ ensure # <<>>
    /\ IsStatus(ensure[1].resp, 409)
    /\ ensure[1].ret = Returned(TRUE)
    /\ HasUpload
    /\ LastUpload.folder # <<>>
    /\ LastUpload.folder[1].resp.raised
    /\ LastUpload.folder[1].ret = Returned(FALSE)

\* C7: during per-image processing the bar's total is 1 + N, its count is
\* the number of slots processed so far (one unit per slot, failed or not),
\* equals the number of records appended, never exceeds the total, and
\* equals the total at Persist.
C7_Progress ==
    Processing =>
        /\ pbar.total = 1 + Len(sub_breeds)
        /\ pbar.n = Len(results)
        /\ pbar.n <= pbar.total
        /\ pbar.n = (IF pc = "ProcessMain" THEN 0
                     ELSE IF pc = "ProcessSubBreeds" THEN idx
                     ELSE pbar.total)
        /\ pc = "Persist" => pbar.n = pbar.total

C7_Witness ==
    /\ pc = "Persist"
    /\ pbar = [total |-> 3, n |-> 3]
    /\ SomeStatus("failed")
    /\ SomeStatus("uploaded")

\* C9: one upload_from_url call issues at most two upload requests and at
\* most one folder-create request; the second upload comes only after a 409
\* on the first and a create_folder on the parent folder that returned true,
\* and nothing follows it.
C9_SingleRetry ==
    HasUpload =>
        LET call == LastUpload
            log == call.log
        IN  /\ Len(log) \in 1..3
            /\ log[1].op = "upload"
            /\ Uploads(log) <= 2
            /\ Folders(log) <= 1
            /\ Len(call.folder) = Folders(log)
            /\ Len(log) >= 2 =>
                    /\ IsStatus(log[1].resp, 409)
                    /\ log[2].op = "create_folder"
                    /\ log[2].path = dirname(call.yandex_path)
            /\ Len(log) = 3 =>
                    /\ call.folder[1].ret = Returned(TRUE)
                    /\ log[3].op = "upload"
                    /\ log[3].path = call.yandex_path
            /\ ~IsStatus(log[1].resp, 409) => Len(log) = 1
            /\ (Len(log) >= 2 /\ call.folder[1].ret # Returned(TRUE)) => Len(log) = 2

C9_Witness ==
    /\ HasUpload
    /\ Len(LastUpload.log) = 3
    /\ IsStatus(LastUpload.log[3].resp, 409)
    /\ LastUpload.ret = Returned(FALSE)

\* C10 as stated: with distinct sub-breed names, two records share a
\* destination path only if both are sub-breed records with equal source
\* filenames; the path is "/{breed}/{breed}_{filename}" for the breed and
\* "/{breed}/{breed}_{sub_breed}_{filename}" for a sub-breed.
Distinct(seq) == \A i, j \in 1..Len(seq) : i # j => seq[i] # seq[j]

Names == [i \in 1..Len(results) |-> NameOf(results[i])]

Paths == [i \in 1..Len(results) |-> results[i].yandex_disk_path]

PathFormat ==
    \A i \in 1..Len(results) :
        Paths[i] = <<"/">> \o breed \o <<"/">> \o breed \o <<"_">> \o Names[i]

C10_Original ==
    /\ PathFormat
    /\ Distinct(sub_breeds) =>
        \A i, j \in 1..Len(results) :
            (i < j /\ Paths[i] = Paths[j])
                => (i > 1 /\ FileOf(results[i]) = FileOf(results[j]))

\* C10 amended: the paths have the stated form (with the fallback filename
\* when no image URL was obtained); two records share a destination path only
\* if what follows "/{breed}/{breed}_" is the same in both, that is the
\* breed's filename is "{sub_breed}_{filename}" of the sub-breed record, or
\* "{sub_breed}_{filename}" is the same text for two sub-breed records; two
\* sub-breed records with different sub-breed names and equal filenames
\* never share one.
C10_Amended ==
    /\ PathFormat
    /\ \A i, j \in 1..Len(results) :
            (i < j /\ Paths[i] = Paths[j]) => Names[i] = Names[j]
    /\ \A i, j \in 2..Len(results) :
            (results[i].sub_breed # results[j].sub_breed
                /\ FileOf(results[i]) = FileOf(results[j]))
                => Paths[i] # Paths[j]

C10_Witness ==
    /\ Len(results) = 3
    /\ Distinct(sub_breeds)
    /\ results[1].yandex_disk_path # results[2].yandex_disk_path
    /\ results[2].yandex_disk_path = results[3].yandex_disk_path
    /\ FileOf(results[2]) # FileOf(results[3])
    /\ results[3].status = "uploaded"

\* C8 as stated: the helper returns, for every URL, a non-empty string with
\* a "." in it, "image.jpg" when the path has no final segment or one
\* without ".", and applied to its own result it returns that result.
NoUsableSegment(u) ==
    LET p == urlparse_path(u)
    IN  ~p.raised /\ (basename(p.value) = <<>> \/ "." \notin Range(basename(p.value)))

====
